---- MODULE Spec2Model ----
(***************************************************************************)
(* Model of c_service/main.c: a libmicrohttpd server with one access       *)
(* handler (handle_request), a signal handler (stop_server) and main().    *)
(*                                                                         *)
(* Flows of control:                                                       *)
(*   - the main thread (pc), which runs main() statement by statement;     *)
(*   - signal handler invocations (frames), a stack that preempts the main *)
(*     thread: signal() gives BSD semantics, so a signal is blocked while  *)
(*     its own handler runs but the other signal can nest;                 *)
(*   - one thread per connection (conn), MHD_USE_THREAD_PER_CONNECTION,    *)
(*     each running handle_request statement by statement.                 *)
(* libmicrohttpd and the kernel are modelled by their documented contract: *)
(* MHD_start_daemon, MHD_create_response_from_buffer and                   *)
(* MHD_queue_response may fail; MHD_stop_daemon on a handle that is being  *)
(* stopped or was stopped is undefined (crash, hang or return).            *)
(***************************************************************************)
EXTENDS Integers, Sequences, FiniteSets, TLC

\* ------------------------------------------------------------------ bounds
NConns == 2
Conns == 1..NConns

\* --------------------------------------------------------------- constants
PORT == 5000
MHD_HTTP_OK == 200
NULL == "NULL"
MHD_YES == "MHD_YES"
MHD_NO == "MHD_NO"
SIG_DFL == "SIG_DFL"
Signals == {"SIGINT", "SIGTERM"}

HEALTH == "/health"
PAGE_OK == "OK"
PAGE_HELLO == "Hello from C Service (Low-level tasks)"

\* The inbound requests the environment can send: the url the handler
\* inspects, and the method, version and upload data it ignores.
AllRequests ==
  { [url |-> "/health",  method |-> "GET",    version |-> "HTTP/1.1", upload |-> ""],
    [url |-> "/health",  method |-> "POST",   version |-> "HTTP/1.0", upload |-> "x=1"],
    [url |-> "/Health",  method |-> "GET",    version |-> "HTTP/1.1", upload |-> ""],
    [url |-> "/HEALTH",  method |-> "HEAD",   version |-> "HTTP/1.1", upload |-> ""],
    [url |-> "/health/", method |-> "DELETE", version |-> "HTTP/1.1", upload |-> ""],
    [url |-> "/healthz", method |-> "GET",    version |-> "HTTP/1.1", upload |-> ""],
    [url |-> "/healt",   method |-> "GET",    version |-> "HTTP/1.0", upload |-> ""],
    [url |-> "health",   method |-> "PUT",    version |-> "HTTP/1.1", upload |-> "y"],
    [url |-> "/",        method |-> "GET",    version |-> "HTTP/1.1", upload |-> ""],
    [url |-> "",         method |-> "BOGUS",  version |-> "HTTP/1.1", upload |-> "zz"] }

\* The requests sent on concurrent connections.
Requests == {r \in AllRequests : r.method = "GET" /\ r.url \in {"/health", "/Health"}}

NoRequest == [url |-> "", method |-> "", version |-> "", upload |-> ""]

VARIABLES
  pc,          \* statement of main() the main thread is at
  http_daemon, \* the global handle: NULL or the daemon's handle
  daemon,      \* libmicrohttpd's daemon object: none, running, stopping, stopped
  handlers,    \* disposition of each signal: SIG_DFL or "stop_server"
  frames,      \* stack of running stop_server invocations, innermost last
  proc,        \* the process: running, exited (status) or signaled (sig)
  received,    \* signals delivered to the process so far
  trace,       \* diagnostics written and shutdown calls made, in order
  startCalls,  \* number of MHD_start_daemon calls made
  stopCalls,   \* number of MHD_stop_daemon calls made
  conn         \* per connection: the handler thread's position and locals

vars == <<pc, http_daemon, daemon, handlers, frames, proc, received, trace,
          startCalls, stopCalls, conn>>

\* ------------------------------------------------------------ C library
\* The byte of a C string at position i (1-based); the terminating NUL past
\* its end is the empty string.
CharAt(s, i) == IF i <= Len(s) THEN SubSeq(s, i, i) ELSE ""

\* strcmp from position i on: 0 when the strings agree up to and including
\* the terminating NUL, non-zero (its sign abstracted to 1) at the first
\* differing byte.
RECURSIVE strcmp_from(_, _, _)
strcmp_from(a, b, i) ==
  IF CharAt(a, i) # CharAt(b, i) THEN 1
  ELSE IF CharAt(a, i) = "" THEN 0
  ELSE strcmp_from(a, b, i + 1)

strcmp(a, b) == strcmp_from(a, b, 1)

\* strncmp over the first n bytes.
RECURSIVE strncmp_from(_, _, _, _)
strncmp_from(a, b, i, n) ==
  IF i > n THEN 0
  ELSE IF CharAt(a, i) # CharAt(b, i) THEN 1
  ELSE IF CharAt(a, i) = "" THEN 0
  ELSE strncmp_from(a, b, i + 1, n)

strlen(s) == Len(s)

\* ------------------------------------------------------- handle_request
\* A wrong test: strcmp's result used as the truth value.
SelectedPage_NoEqZero(url) ==
  IF strcmp(url, HEALTH) # 0 THEN PAGE_OK ELSE PAGE_HELLO

\* A wrong test: only the first strlen("/health") bytes are compared.
SelectedPage_Prefix(url) ==
  IF strncmp_from(url, HEALTH, 1, strlen(HEALTH)) = 0 THEN PAGE_OK ELSE PAGE_HELLO

\* Lines 18-26: the page chosen for a url.
SelectedPage(url) ==
  IF strcmp(url, HEALTH) = 0 THEN PAGE_OK ELSE PAGE_HELLO

\* A response object of libmicrohttpd: the buffer it points at
\* (MHD_RESPMEM_PERSISTENT: not copied), its size and its reference count.
NoResponse == [buffer |-> "", size |-> 0, refs |-> 0]

\* What the transport sends for a response object: size bytes of the buffer.
Body(r) == SubSeq(r.buffer, 1, r.size)

IdleConn ==
  [st |-> "idle", req |-> NoRequest, page |-> NULL, response |-> NULL,
   obj |-> NoResponse, ret |-> NULL, sent |-> <<>>]

InHandler(c) == conn[c].st \in {"select", "create", "queue", "destroy", "return"}

Running == proc.state = "running"

\* libmicrohttpd calls handle_request on the connection's thread once the
\* request's headers are read.
Dispatch(c, R) ==
  /\ Running
  /\ daemon = "running"
  /\ conn[c].st = "idle"
  /\ \E r \in R :
       conn' = [conn EXCEPT ![c] = [IdleConn EXCEPT !.st = "select", !.req = r]]
  /\ UNCHANGED <<pc, http_daemon, daemon, handlers, frames, proc, received,
                 trace, startCalls, stopCalls>>

\* The page kept in one variable shared by all handler threads.
SelectPage_Shared(c) ==
  /\ Running
  /\ conn[c].st = "select"
  /\ conn' = [d \in Conns |->
               IF d = c
                 THEN [conn[d] EXCEPT !.st = "create",
                                      !.page = SelectedPage(conn[c].req.url)]
               ELSE IF InHandler(d) /\ conn[d].page # NULL
                 THEN [conn[d] EXCEPT !.page = SelectedPage(conn[c].req.url)]
               ELSE conn[d]]
  /\ UNCHANGED <<pc, http_daemon, daemon, handlers, frames, proc, received,
                 trace, startCalls, stopCalls>>

\* Lines 18-26.
SelectPage(c) ==
  /\ Running
  /\ conn[c].st = "select"
  /\ conn' = [conn EXCEPT ![c].st = "create",
                          ![c].page = SelectedPage(conn[c].req.url)]
  /\ UNCHANGED <<pc, http_daemon, daemon, handlers, frames, proc, received,
                 trace, startCalls, stopCalls>>

\* A failed creation treated as fatal: exit(1).
CreateResponse_Exit(c) ==
  /\ Running
  /\ conn[c].st = "create"
  /\ \/ /\ conn' = [conn EXCEPT ![c].st = "queue",
                                ![c].response = "R",
                                ![c].obj = [buffer |-> conn[c].page,
                                            size |-> strlen(conn[c].page),
                                            refs |-> 1]]
        /\ UNCHANGED proc
     \/ /\ conn' = [conn EXCEPT ![c].st = "returned",
                                ![c].response = NULL,
                                ![c].ret = MHD_NO]
        /\ proc' = [state |-> "exited", status |-> 1, sig |-> "none"]
  /\ UNCHANGED <<pc, http_daemon, daemon, handlers, frames, received,
                 trace, startCalls, stopCalls>>

\* Lines 29-33: MHD_create_response_from_buffer succeeds (one reference,
\* held by the handler) or returns NULL, and then the handler returns MHD_NO.
CreateResponse(c) ==
  /\ Running
  /\ conn[c].st = "create"
  /\ \/ conn' = [conn EXCEPT ![c].st = "queue",
                             ![c].response = "R",
                             ![c].obj = [buffer |-> conn[c].page,
                                         size |-> strlen(conn[c].page),
                                         refs |-> 1]]
     \/ conn' = [conn EXCEPT ![c].st = "returned",
                             ![c].response = NULL,
                             ![c].ret = MHD_NO]
  /\ UNCHANGED <<pc, http_daemon, daemon, handlers, frames, proc, received,
                 trace, startCalls, stopCalls>>

\* Line 36: MHD_queue_response succeeds (the connection takes a reference and
\* will send the status and the body) or fails.
QueueResponse(c) ==
  /\ Running
  /\ conn[c].st = "queue"
  /\ \/ conn' = [conn EXCEPT ![c].st = "destroy",
                             ![c].ret = MHD_YES,
                             ![c].obj.refs = @ + 1,
                             ![c].sent = Append(@, [status |-> MHD_HTTP_OK,
                                                    body |-> Body(conn[c].obj)])]
     \/ conn' = [conn EXCEPT ![c].st = "destroy", ![c].ret = MHD_NO]
  /\ UNCHANGED <<pc, http_daemon, daemon, handlers, frames, proc, received,
                 trace, startCalls, stopCalls>>

\* The response destroyed only when it was queued: a failed queue leaks it.
DestroyResponse_OnlyOnSuccess(c) ==
  /\ Running
  /\ conn[c].st = "destroy"
  /\ conn' = [conn EXCEPT ![c].st = "return",
                          ![c].obj.refs = IF conn[c].ret = MHD_YES THEN @ - 1 ELSE @]
  /\ UNCHANGED <<pc, http_daemon, daemon, handlers, frames, proc, received,
                 trace, startCalls, stopCalls>>

\* Line 37: MHD_destroy_response drops the handler's reference.
DestroyResponse(c) ==
  /\ Running
  /\ conn[c].st = "destroy"
  /\ conn' = [conn EXCEPT ![c].st = "return", ![c].obj.refs = @ - 1]
  /\ UNCHANGED <<pc, http_daemon, daemon, handlers, frames, proc, received,
                 trace, startCalls, stopCalls>>

\* Line 39: return ret; the local pointer goes out of scope.
Return(c) ==
  /\ Running
  /\ conn[c].st = "return"
  /\ conn' = [conn EXCEPT ![c].st = "returned", ![c].response = NULL]
  /\ UNCHANGED <<pc, http_daemon, daemon, handlers, frames, proc, received,
                 trace, startCalls, stopCalls>>

\* A blocking wait of main() that a finished request ends.
Complete_WakesMain(c) ==
  /\ Running
  /\ conn[c].st = "returned"
  /\ conn' = [conn EXCEPT ![c] = IdleConn]
  /\ pc' = IF pc = "m_pause" THEN "m_ret0" ELSE pc
  /\ UNCHANGED <<http_daemon, daemon, handlers, frames, proc, received,
                 trace, startCalls, stopCalls>>

\* After the callback libmicrohttpd sends the queued response (MHD_YES) or
\* closes the connection (MHD_NO); the connection is ready for its next request.
Complete(c) ==
  /\ Running
  /\ conn[c].st = "returned"
  /\ conn' = [conn EXCEPT ![c] = IdleConn]
  /\ UNCHANGED <<pc, http_daemon, daemon, handlers, frames, proc, received,
                 trace, startCalls, stopCalls>>

\* ------------------------------------------------------------------ main
\* The statements of main() on the path where the daemon starts, in order.
\* (signal handlers installed before the daemon is started)
MainFlow_SignalsFirst ==
  <<"m_printf", "m_sigint", "m_sigterm", "m_start", "m_check", "m_pause", "m_ret0">>

\* Lines 57-78.
MainFlow ==
  <<"m_printf", "m_start", "m_check", "m_sigint", "m_sigterm", "m_pause", "m_ret0">>

\* The statement after statement l of MainFlow.
MainSucc(l) ==
  LET i == CHOOSE j \in 1..Len(MainFlow) : MainFlow[j] = l IN MainFlow[i + 1]

\* (the failure of MHD_start_daemon not tested)
AfterCheck_Unchecked(d) == MainSucc("m_check")

\* Lines 65-69: where main() goes after testing the handle.
AfterCheck(d) == IF d = NULL THEN "m_fail" ELSE MainSucc("m_check")

Event(e, who, n) == [ev |-> e, by |-> who, arg |-> n]

Exited(n) == [state |-> "exited", status |-> n, sig |-> "none"]
Signaled(s) == [state |-> "signaled", status |-> -1, sig |-> s]

\* The main thread runs when the process lives and no signal handler is
\* running on it.
MainRuns == Running /\ frames = <<>>

\* Line 57.
MainPrintf ==
  /\ MainRuns
  /\ pc = "m_printf"
  /\ trace' = Append(trace, Event("C Service => port", "main", PORT))
  /\ pc' = MainSucc(pc)
  /\ UNCHANGED <<http_daemon, daemon, handlers, frames, proc, received,
                 startCalls, stopCalls, conn>>

\* Lines 60-64: MHD_start_daemon binds the port and returns the handle, or
\* fails (port in use, no privilege) and returns NULL.
StartDaemon ==
  /\ MainRuns
  /\ pc = "m_start"
  /\ startCalls' = startCalls + 1
  /\ \/ http_daemon' = "D" /\ daemon' = "running"
     \/ http_daemon' = NULL /\ daemon' = daemon
  /\ pc' = MainSucc(pc)
  /\ UNCHANGED <<handlers, frames, proc, received, trace, stopCalls, conn>>

\* Line 65.
CheckStart ==
  /\ MainRuns
  /\ pc = "m_check"
  /\ pc' = AfterCheck(http_daemon)
  /\ UNCHANGED <<http_daemon, daemon, handlers, frames, proc, received, trace,
                 startCalls, stopCalls, conn>>

\* Line 67.
ReportFailure ==
  /\ MainRuns
  /\ pc = "m_fail"
  /\ trace' = Append(trace, Event("Failed to start microhttpd.", "main", 0))
  /\ pc' = "m_ret1"
  /\ UNCHANGED <<http_daemon, daemon, handlers, frames, proc, received,
                 startCalls, stopCalls, conn>>

\* Line 72: signal(SIGINT, stop_server).
InstallSigint ==
  /\ MainRuns
  /\ pc = "m_sigint"
  /\ handlers' = [handlers EXCEPT !["SIGINT"] = "stop_server"]
  /\ pc' = MainSucc(pc)
  /\ UNCHANGED <<http_daemon, daemon, frames, proc, received, trace,
                 startCalls, stopCalls, conn>>

\* Line 73: signal(SIGTERM, stop_server).
InstallSigterm ==
  /\ MainRuns
  /\ pc = "m_sigterm"
  /\ handlers' = [handlers EXCEPT !["SIGTERM"] = "stop_server"]
  /\ pc' = MainSucc(pc)
  /\ UNCHANGED <<http_daemon, daemon, frames, proc, received, trace,
                 startCalls, stopCalls, conn>>

\* Lines 68 and 78: main() returns its status; the process and its threads end.
MainReturn ==
  /\ MainRuns
  /\ pc \in {"m_ret1", "m_ret0"}
  /\ proc' = Exited(IF pc = "m_ret1" THEN 1 ELSE 0)
  /\ trace' = Append(trace, Event("return", "main", IF pc = "m_ret1" THEN 1 ELSE 0))
  /\ conn' = [c \in Conns |-> IdleConn]
  /\ pc' = "done"
  /\ UNCHANGED <<http_daemon, daemon, handlers, frames, received,
                 startCalls, stopCalls>>

\* ----------------------------------------------------------- stop_server
\* The statements of stop_server's body under `if (http_daemon)`, in order.
\* (the order of the specification's shutdown list: stop, diagnostic, exit)
StopServerFlow_StopFirst == <<"h_stop", "h_printf", "h_exit">>

\* Lines 49-51.
StopServerFlow == <<"h_printf", "h_stop", "h_exit">>

Top == frames[Len(frames)]
Stmt == StopServerFlow[Top.i]
SetTop(f) == [frames EXCEPT ![Len(frames)] = f]

\* signal() blocks a signal while its own handler runs.
Blocked(sig) == \E k \in 1..Len(frames) : frames[k].sig = sig

\* Line 47: the test that lets stop_server's body run.
Enters(d) == d # NULL

\* The kernel delivers SIGINT or SIGTERM. With the default disposition the
\* process is terminated by the signal. With stop_server installed the
\* handler is invoked on top of whatever the main thread was doing: it
\* tests http_daemon (line 47) and either enters its body or returns, and a
\* returning handler makes pause() return.
Deliver(sig) ==
  /\ Running
  /\ ~Blocked(sig)
  /\ received' = received \cup {sig}
  /\ IF handlers[sig] = SIG_DFL
       THEN /\ proc' = Signaled(sig)
            /\ conn' = [c \in Conns |-> IdleConn]
            /\ UNCHANGED <<pc, frames>>
     ELSE IF Enters(http_daemon)
       THEN /\ frames' = Append(frames, [sig |-> sig, i |-> 1, call |-> "no"])
            /\ UNCHANGED <<pc, proc, conn>>
     ELSE /\ pc' = IF pc = "m_pause" /\ frames = <<>> THEN MainSucc(pc) ELSE pc
          /\ UNCHANGED <<frames, proc, conn>>
  /\ UNCHANGED <<http_daemon, daemon, handlers, trace, startCalls, stopCalls>>

\* The innermost handler invocation runs when the process lives and it is
\* not inside a call.
HandlerAt(l) ==
  /\ Running
  /\ frames # <<>>
  /\ Top.call = "no"
  /\ Stmt = l

\* Line 49.
HandlerPrintf ==
  /\ HandlerAt("h_printf")
  /\ trace' = Append(trace, Event("Stopping C Service...", Top.sig, 0))
  /\ frames' = SetTop([Top EXCEPT !.i = @ + 1])
  /\ UNCHANGED <<pc, http_daemon, daemon, handlers, proc, received,
                 startCalls, stopCalls, conn>>

\* Line 50, the call: on a running daemon MHD_stop_daemon closes the listener
\* and waits for the connection threads. On a daemon that is being stopped or
\* was stopped (and freed) the call is undefined: the process crashes, the
\* call never returns, or it returns.
StopDaemonCall ==
  /\ HandlerAt("h_stop")
  /\ stopCalls' = stopCalls + 1
  /\ IF daemon = "running"
       THEN /\ daemon' = "stopping"
            /\ frames' = SetTop([Top EXCEPT !.call = "in"])
            /\ trace' = Append(trace, Event("MHD_stop_daemon", Top.sig, 0))
            /\ UNCHANGED <<proc, conn>>
     ELSE /\ daemon' = daemon
          /\ \/ /\ proc' = Signaled("SIGSEGV")
                /\ conn' = [c \in Conns |-> IdleConn]
                /\ trace' = Append(trace, Event("MHD_stop_daemon", Top.sig, 0))
                /\ UNCHANGED frames
             \/ /\ frames' = SetTop([Top EXCEPT !.call = "hung"])
                /\ trace' = Append(trace, Event("MHD_stop_daemon", Top.sig, 0))
                /\ UNCHANGED <<proc, conn>>
             \/ /\ frames' = SetTop([Top EXCEPT !.i = @ + 1])
                /\ trace' = trace \o <<Event("MHD_stop_daemon", Top.sig, 0),
                                       Event("MHD_stop_daemon returned", Top.sig, 0)>>
                /\ UNCHANGED <<proc, conn>>
  /\ UNCHANGED <<pc, http_daemon, handlers, received, startCalls>>

\* Line 50, the return: every connection thread has left the callback and is
\* joined, the connections are closed and the listener is released.
StopDaemonReturn ==
  /\ Running
  /\ frames # <<>>
  /\ Top.call = "in"
  /\ \A c \in Conns : ~InHandler(c)
  /\ daemon' = "stopped"
  /\ conn' = [c \in Conns |-> IdleConn]
  /\ frames' = SetTop([Top EXCEPT !.call = "no", !.i = @ + 1])
  /\ trace' = Append(trace, Event("MHD_stop_daemon returned", Top.sig, 0))
  /\ UNCHANGED <<pc, http_daemon, handlers, proc, received, startCalls, stopCalls>>

\* Line 51: exit(0).
HandlerExit ==
  /\ HandlerAt("h_exit")
  /\ proc' = Exited(0)
  /\ trace' = Append(trace, Event("exit", Top.sig, 0))
  /\ conn' = [c \in Conns |-> IdleConn]
  /\ UNCHANGED <<pc, http_daemon, daemon, handlers, frames, received,
                 startCalls, stopCalls>>

\* ------------------------------------------------------------ the system
Init ==
  /\ pc = "m_printf"
  /\ http_daemon = NULL
  /\ daemon = "none"
  /\ handlers = [s \in Signals |-> SIG_DFL]
  /\ frames = <<>>
  /\ proc = [state |-> "running", status |-> -1, sig |-> "none"]
  /\ received = {}
  /\ trace = <<>>
  /\ startCalls = 0
  /\ stopCalls = 0
  /\ conn = [c \in Conns |-> IdleConn]

\* main(), stop_server and the signals.
Lifecycle ==
  \/ MainPrintf
  \/ StartDaemon
  \/ CheckStart
  \/ ReportFailure
  \/ InstallSigint
  \/ InstallSigterm
  \/ MainReturn
  \/ \E sig \in Signals : Deliver(sig)
  \/ HandlerPrintf
  \/ StopDaemonCall
  \/ StopDaemonReturn
  \/ HandlerExit

\* One connection's thread, its requests drawn from R.
Serve(c, R) ==
  \/ Dispatch(c, R)
  \/ SelectPage(c)
  \/ CreateResponse(c)
  \/ QueueResponse(c)
  \/ DestroyResponse(c)
  \/ Return(c)
  \/ Complete(c)

Next == Lifecycle \/ \E c \in Conns : Serve(c, Requests)

\* The whole program with NConns concurrent connections.
Spec == Init /\ [][Next]_vars

NextOne == Lifecycle \/ Serve(1, AllRequests)

\* The whole program with one connection and every request of AllRequests.
SpecOne == Init /\ [][NextOne]_vars

\* ================================================================ claims
Hello == "Hello from C Service (Low-level tasks)"

\* The single response a url must get.
Expected(url) ==
  [status |-> 200, body |-> IF url = "/health" THEN "OK" ELSE Hello]

\* C1: a request whose url is exactly /health, whatever its method, version
\* or upload data, is answered 200 with body OK: the response object the
\* handler creates holds exactly OK, what it queues is 200/OK, a handler that
\* returned MHD_YES queued exactly that one response, and one that returned
\* MHD_NO queued nothing.
C1_HealthIsOK ==
  \A c \in Conns :
    conn[c].req.url = "/health" /\ conn[c].st # "idle" =>
      /\ conn[c].response # NULL => Body(conn[c].obj) = "OK"
      /\ \A k \in DOMAIN conn[c].sent :
           conn[c].sent[k] = [status |-> 200, body |-> "OK"]
      /\ conn[c].st = "returned" /\ conn[c].ret = MHD_YES => Len(conn[c].sent) = 1
      /\ conn[c].ret = MHD_NO => conn[c].sent = <<>>

C1_Witness ==
  \E c \in Conns :
    /\ conn[c].req.url = "/health"
    /\ conn[c].req.method = "POST"
    /\ conn[c].st = "returned"
    /\ conn[c].ret = MHD_YES
    /\ conn[c].sent = <<[status |-> 200, body |-> "OK"]>>

\* C2: a request whose url is anything but exactly /health (another case, a
\* longer or shorter path, the empty path), whatever its method, is answered
\* 200 with the greeting; and no response of any request has a status other
\* than 200.
C2_OtherIsHello ==
  \A c \in Conns :
    /\ \A k \in DOMAIN conn[c].sent : conn[c].sent[k].status = 200
    /\ conn[c].req.url # "/health" /\ conn[c].st # "idle" =>
         /\ conn[c].response # NULL => Body(conn[c].obj) = Hello
         /\ \A k \in DOMAIN conn[c].sent :
              conn[c].sent[k] = [status |-> 200, body |-> Hello]
         /\ conn[c].st = "returned" /\ conn[c].ret = MHD_YES => Len(conn[c].sent) = 1
         /\ conn[c].ret = MHD_NO => conn[c].sent = <<>>

C2_Witness ==
  \E c \in Conns :
    /\ conn[c].req.url = ""
    /\ conn[c].st = "returned"
    /\ conn[c].ret = MHD_YES
    /\ conn[c].sent = <<[status |-> 200, body |-> Hello]>>

\* C3 (as claimed): once the process has received SIGINT or SIGTERM, at any
\* point of its execution, it does not get stuck and it ends by exiting with
\* status 0 after MHD_stop_daemon completed.
C3_SignalEndsInCleanExit ==
  received # {} =>
    /\ \A k \in 1..Len(frames) : frames[k].call # "hung"
    /\ proc.state # "running" => proc = Exited(0) /\ daemon = "stopped"

\* C4 (as claimed): MHD_stop_daemon is invoked at most once, never on a
\* handle that is being stopped or was stopped.
C4_StoppedAtMostOnce == stopCalls <= 1

StartFailed == startCalls >= 1 /\ http_daemon = NULL

\* C5: when MHD_start_daemon failed, no signal handler is ever installed,
\* the main thread never reaches the handler installation or pause(), the
\* stop logic never runs, the start is not retried, the error diagnostic is
\* written before main returns, and the status main returns is 1.
C5_FailedStartIsFatal ==
  StartFailed =>
    /\ startCalls = 1
    /\ daemon = "none"
    /\ \A s \in Signals : handlers[s] = SIG_DFL
    /\ frames = <<>>
    /\ stopCalls = 0
    /\ pc \in {"m_check", "m_fail", "m_ret1", "done"}
    /\ pc \in {"m_ret1", "done"} =>
         \E k \in DOMAIN trace : trace[k].ev = "Failed to start microhttpd."
    /\ \A k \in DOMAIN trace : trace[k].ev # "Stopping C Service..."
    /\ proc.state = "exited" => proc.status = 1
    /\ pc = "done" <=> proc = Exited(1)

C5_Witness == StartFailed /\ pc = "done" /\ proc = Exited(1)

\* C6 (as claimed): the process ends only by exiting with status 0 or 1,
\* with 1 exactly when the start failed, and with 0 whenever a SIGINT or
\* SIGTERM was delivered, whenever that was.
C6_ExitStatusIsZeroOrOne ==
  proc.state # "running" =>
    /\ proc.state = "exited"
    /\ proc.status \in {0, 1}
    /\ proc.status = 1 <=> StartFailed
    /\ received # {} => proc.status = 0

\* C7: with any number of connections in the handler at once, each
\* connection gets at most one response per request and exactly one when its
\* handler returned MHD_YES, and the page chosen for a connection and the
\* body sent on it are fixed by that connection's own url (OK for /health,
\* the greeting otherwise), whatever the other connections are doing.
C7_NoCrossTalk ==
  \A c \in Conns :
    /\ Len(conn[c].sent) <= 1
    /\ conn[c].page # NULL => conn[c].page = Expected(conn[c].req.url).body
    /\ conn[c].response # NULL => Body(conn[c].obj) = Expected(conn[c].req.url).body
    /\ \A k \in DOMAIN conn[c].sent :
         conn[c].sent[k].body = Expected(conn[c].req.url).body
    /\ conn[c].st = "returned" /\ conn[c].ret = MHD_YES => Len(conn[c].sent) = 1

C7_Witness ==
  /\ NConns >= 2
  /\ \A c \in Conns :
       /\ conn[c].req.url = "/health"
       /\ conn[c].st = "returned"
       /\ conn[c].sent = <<[status |-> 200, body |-> "OK"]>>

\* C8: when creating or queueing the response fails for a request, the
\* handler returns MHD_NO for that request and nothing was queued for it; the
\* failing step leaves the process running and changes neither the server
\* handle, the daemon, the main thread, the signal handlers nor any other
\* connection; and every handler that returns MHD_YES, before or after a
\* failure elsewhere, has queued exactly the response of its own url.
C8_FailureIsContained ==
  /\ [](\A c \in Conns :
          conn[c].st = "returned" =>
            /\ conn[c].sent = <<>> <=> conn[c].ret = MHD_NO
            /\ conn[c].ret = MHD_YES => conn[c].sent = <<Expected(conn[c].req.url)>>)
  /\ [][\A c \in Conns :
          (\/ conn[c].st = "create" /\ conn'[c].st = "returned"
           \/ conn[c].st = "queue" /\ conn'[c].st = "destroy" /\ conn'[c].sent = <<>>)
          => /\ conn'[c].ret = MHD_NO
             /\ proc.state = "running" /\ proc' = proc
             /\ http_daemon' = http_daemon /\ daemon' = daemon
             /\ pc' = pc /\ frames' = frames /\ handlers' = handlers
             /\ \A d \in Conns \ {c} : conn'[d] = conn[d]]_vars

C8_Witness ==
  \E c, d \in Conns :
    /\ conn[c].st = "returned" /\ conn[c].ret = MHD_NO /\ conn[c].sent = <<>>
    /\ conn[d].st = "returned" /\ conn[d].ret = MHD_YES
    /\ conn[d].sent = <<Expected(conn[d].req.url)>>
    /\ proc.state = "running" /\ daemon = "running" /\ http_daemon # NULL

\* What one stop_server invocation (the handler of signal s) has done so far.
DoneBy(s) ==
  LET mine == SelectSeq(trace, LAMBDA e : e.by = s)
  IN [k \in 1..Len(mine) |-> mine[k].ev]

IsPrefix(a, b) == Len(a) <= Len(b) /\ \A k \in 1..Len(a) : a[k] = b[k]

\* C9 (as claimed): stop_server stops and releases the listener first, then
\* writes the shutdown diagnostic, then exits with status 0.
C9_StopThenDiagnosticThenExit ==
  \A s \in Signals :
    IsPrefix(DoneBy(s), <<"MHD_stop_daemon", "MHD_stop_daemon returned",
                          "Stopping C Service...", "exit">>)

\* C9 (amended): each stop_server invocation writes the shutdown diagnostic
\* first, then calls MHD_stop_daemon, and calls exit(0) only after that call
\* returned; a process that exited with status 0 has done all four in that
\* order in one invocation.
C9_DiagnosticThenStopThenExit ==
  /\ \A s \in Signals :
       IsPrefix(DoneBy(s), <<"Stopping C Service...", "MHD_stop_daemon",
                             "MHD_stop_daemon returned", "exit">>)
  /\ proc = Exited(0) =>
       \E s \in Signals :
         DoneBy(s) = <<"Stopping C Service...", "MHD_stop_daemon",
                       "MHD_stop_daemon returned", "exit">>

C9_Witness ==
  /\ proc = Exited(0)
  /\ daemon = "stopped"
  /\ stopCalls = 1
  /\ DoneBy("SIGTERM") = <<"Stopping C Service...", "MHD_stop_daemon",
                           "MHD_stop_daemon returned", "exit">>

\* C10: a signal handler is installed only once the daemon has started and
\* the handle is assigned, the main thread is in pause() only with both
\* handlers installed, and stop_server never runs its body, nor calls
\* MHD_stop_daemon, while the handle is unassigned.
C10_StartupOrder ==
  /\ (\E s \in Signals : handlers[s] # SIG_DFL) =>
       http_daemon # NULL /\ daemon # "none" /\ startCalls = 1
  /\ handlers["SIGTERM"] # SIG_DFL => handlers["SIGINT"] # SIG_DFL
  /\ pc = "m_pause" => \A s \in Signals : handlers[s] = "stop_server"
  /\ frames # <<>> \/ stopCalls > 0 => http_daemon # NULL

C10_Witness ==
  /\ pc = "m_pause"
  /\ proc.state = "running"
  /\ frames = <<>>
  /\ http_daemon # NULL /\ daemon = "running"
  /\ \A s \in Signals : handlers[s] = "stop_server"

\* C11: after a successful startup (both handlers installed) with no signal
\* delivered yet the main thread is in pause(), and it stays there: as long as no
\* SIGINT or SIGTERM is delivered, a step taken while main is in pause() is a
\* step of a connection thread and changes nothing but that connection, and
\* main never leaves pause() to run another statement of its own.
C11_MainStaysSuspended ==
  /\ []((\A s \in Signals : handlers[s] = "stop_server") /\ received = {}
          => pc = "m_pause" /\ proc.state = "running" /\ frames = <<>>)
  /\ [][pc = "m_pause" => pc' = "m_pause"]_vars
  /\ [][pc = "m_pause" /\ received = {} /\ received' = {}
          => UNCHANGED <<pc, http_daemon, daemon, handlers, frames, proc,
                         trace, startCalls, stopCalls>>]_vars

C11_Witness ==
  /\ pc = "m_pause"
  /\ proc.state = "running"
  /\ received = {}
  /\ \A c \in Conns : conn[c].st = "returned" /\ conn[c].sent # <<>>

\* The part of C12 about who writes what: the variable http_daemon is
\* assigned only by main() at MHD_start_daemon, the daemon behind it changes
\* only there and inside stop_server, and a step of handle_request on any
\* connection leaves the handle, the daemon, the main thread, the signal
\* handlers and the process as they were.
C12_OnlyStartAndStopWrite ==
  /\ [][http_daemon' # http_daemon
          => pc = "m_start" /\ frames = <<>> /\ http_daemon = NULL]_vars
  /\ [][daemon' # daemon
          => \/ pc = "m_start" /\ frames = <<>> /\ daemon' = "running"
             \/ frames # <<>> /\ daemon' \in {"stopping", "stopped"}]_vars
  /\ [][\A c \in Conns :
          conn'[c] # conn[c] /\ conn'[c].st # "idle"
          => UNCHANGED <<pc, http_daemon, daemon, handlers, frames, proc,
                         received, trace, startCalls, stopCalls>>]_vars

\* C12 (as claimed): the above, and the handle is never mutated by two flows
\* at once: while one invocation of the shutdown logic is inside
\* MHD_stop_daemon no other invocation has called it.
C12_HandleOwnedByMain ==
  /\ C12_OnlyStartAndStopWrite
  /\ []((\E k \in 1..Len(frames) : frames[k].call = "in") => stopCalls = 1)

\* The references to a connection's response object that handle_request
\* holds: all of them but the one the connection took for each response queued.
HeldByHandler(c) == conn[c].obj.refs - Len(conn[c].sent)

\* C13: handle_request holds one reference to the response from its creation
\* until MHD_destroy_response and none before or after: it holds none once
\* the handler returned, whether the queueing succeeded or failed; when the
\* creation failed there is no object and the count never goes below zero;
\* and the handler's reference is dropped by one step only, the destroy
\* of line 37, by exactly one.
C13_ResponseDestroyedOnce ==
  /\ [](\A c \in Conns :
          /\ conn[c].obj.refs >= 0
          /\ HeldByHandler(c) = IF conn[c].st \in {"queue", "destroy"} THEN 1 ELSE 0
          /\ conn[c].st \in {"idle", "select", "create"} => conn[c].obj = NoResponse)
  /\ [][\A c \in Conns :
          conn'[c].st # "idle" /\ conn'[c].obj.refs < conn[c].obj.refs
          => /\ conn[c].st = "destroy" /\ conn'[c].st = "return"
             /\ conn'[c].obj.refs = conn[c].obj.refs - 1]_vars

C13_Witness ==
  \E c, d \in Conns :
    /\ conn[c].st = "returned" /\ conn[c].ret = MHD_NO
    /\ conn[c].obj.buffer # "" /\ conn[c].obj.refs = 0
    /\ conn[d].st = "returned" /\ conn[d].ret = MHD_YES
    /\ conn[d].obj.refs = 1 /\ HeldByHandler(d) = 0

\* C14: whenever a signal can invoke stop_server the test of line 47 passes
\* (the handle is assigned and never cleared again), so no invocation of
\* stop_server ever returns; pause() therefore never returns, main never
\* reaches `return 0` and returns only 1; and a process that exited with
\* status 0 did so by the exit(0) of a stop_server invocation.
C14_StopServerNeverReturns ==
  /\ []((\E s \in Signals : handlers[s] # SIG_DFL) => Enters(http_daemon))
  /\ [](pc # "m_ret0" /\ (pc = "done" => proc = Exited(1)))
  /\ [](proc.state = "exited" /\ proc.status = 0
          => /\ frames # <<>>
             /\ pc \in {"m_sigterm", "m_pause"}
             /\ trace[Len(trace)] = Event("exit", frames[Len(frames)].sig, 0))
  /\ [][http_daemon # NULL => http_daemon' = http_daemon]_vars
  /\ [][Len(frames') >= Len(frames)]_vars

C14_Witness ==
  /\ proc = Exited(0)
  /\ pc = "m_pause"
  /\ received = {"SIGINT"}
  /\ Len(frames) = 1
  /\ http_daemon # NULL

====
